---- MODULE Spec2Model ----
(***************************************************************************)
(* A model of cellx: the manifold projection compositor                    *)
(* (cellx/tools/projection.py), the encoding writer/reader and the         *)
(* annotation reader (cellx/tools/io.py) and the UNet skip connections     *)
(* (cellx/networks/unet.py).                                               *)
(*                                                                         *)
(* Numbers.  Floating-point image values are carried as fixed-point        *)
(* integers in units of 1/Resolution, rounded down.  Bin edges and extents *)
(* are carried in half units (the value times 2), which is exact for the   *)
(* integer embedding coordinates used here, including the -0.5/+0.5        *)
(* widening of a degenerate range.                                         *)
(***************************************************************************)
EXTENDS Integers, Sequences, FiniteSets, TLC

VARIABLES
    \* ManifoldProjection2D object and the outcome of its latest __call__
    phase, output_shape, image_files, images, preload,
    reads, ncalls, call_manifold, call_bins, call_reads, call_grid,
    raised, imgrid, extent,
    \* _load_and_normalize, one invocation
    norm_in, norm_shape, norm_div, norm_z, norm_out,
    \* EncodingWriter, the files it writes, and EncodingReader
    enc_phase, json_data, npz_files, json_file, json_writes, block_raised,
    enc_log, reader_metadata, reader_got,
    \* read_annotations, one invocation
    ann_phase, ann_use_flagged, zipfiles, ann_pos, states, States,
    ann_images, ann_labels, ann_raised,
    \* UNet object and the latest call() on it
    unet_phase, unet_skip, unet_layers, unet_skips, unet_merges,
    unet_out, unet_raised,
    \* write_dataset, the TFRecord file it writes, and parse_tfrecord over it
    ds_phase, ds_dtype, ds_shape, ds_images, ds_labels, tfrecord, ds_raised,
    parsed

projVars == <<phase, output_shape, image_files, images, preload,
              reads, ncalls, call_manifold, call_bins, call_reads, call_grid,
              raised, imgrid, extent>>
normVars == <<norm_in, norm_shape, norm_div, norm_z, norm_out>>
encVars == <<enc_phase, json_data, npz_files, json_file, json_writes, block_raised,
             enc_log, reader_metadata, reader_got>>
annVars == <<ann_phase, ann_use_flagged, zipfiles, ann_pos, states, States,
             ann_images, ann_labels, ann_raised>>
unetVars == <<unet_phase, unet_skip, unet_layers, unet_skips, unet_merges,
              unet_out, unet_raised>>
dsVars == <<ds_phase, ds_dtype, ds_shape, ds_images, ds_labels, tfrecord,
            ds_raised, parsed>>
vars == <<projVars, normVars, encVars, annVars, unetVars, dsVars>>

\* what a step of one component leaves alone
notProj == <<normVars, encVars, annVars, unetVars, dsVars>>
notNorm == <<projVars, encVars, annVars, unetVars, dsVars>>
notEnc == <<projVars, normVars, annVars, unetVars, dsVars>>
notAnn == <<projVars, normVars, encVars, unetVars, dsVars>>
notUNet == <<projVars, normVars, encVars, annVars, dsVars>>
notDs == <<projVars, normVars, encVars, annVars, unetVars>>

----------------------------------------------------------------------------
\* Bounds of the model.

\* fixed-point steps per unit of a floating-point image value
Resolution == 4
\* raw (resized) pixel intensities are 0..MaxRaw
MaxRaw == 2
\* image files on disk are 1..NumFiles
NumFiles == 2
\* an object holds 1..MaxFiles image files
MaxFiles == 2
\* output_shape sides are 1..MaxSide
MaxSide == 2
\* bins is 1..MaxBins
MaxBins == 2
\* embedding coordinates are 0..MaxCoord
MaxCoord == 2
\* __call__ invocations per object when it is called repeatedly, and the
\* embedding coordinates 0..RepeatCoord used then
MaxCalls == 2
RepeatCoord == 1
\* sides of the images given to _load_and_normalize on its own
MaxNormSide == 5

\* distinct encodings (arrays of different bytes) are 1..NumEncodings
NumEncodings == 2
\* class labels are 0..MaxLabel
MaxLabel == 1
\* write calls per `with EncodingWriter` block
MaxWrites == 2

\* read_annotations is given up to MaxZips zip files
MaxZips == 2

\* a UNet has up to MaxLayers layers
MaxLayers == 3
\* write_dataset is given up to MaxImages images, of sides 1..MaxDim, their
\* contents chosen by a seed 0..MaxSeed
MaxImages == 2
MaxDim == 2
MaxSeed == 2

\* the canvas has 3 channels (projection.py line 91)
NChannels == 3

\* the values of a byte: tf.io.decode_raw(..., tf.uint8) (dataset.py line 111)
ByteBase == 256

----------------------------------------------------------------------------
\* Arithmetic helpers.

Min(a, b) == IF a <= b THEN a ELSE b
Max(a, b) == IF a >= b THEN a ELSE b

\* np.clip
Clip(v, lo, hi) == Max(lo, Min(v, hi))

\* floor(a / b) for b > 0 and any integer a
FloorDiv(a, b) == IF a >= 0 THEN a \div b ELSE -((-a + b - 1) \div b)

\* floor(sqrt(x)) for a natural x
RECURSIVE ISqrtFrom(_, _)
ISqrtFrom(x, k) == IF (k + 1) * (k + 1) > x THEN k ELSE ISqrtFrom(x, k + 1)
ISqrt(x) == ISqrtFrom(x, 0)

\* floor(a / sqrt(m)) for an integer a and m > 0
FloorDivSqrt(a, m) ==
    IF a >= 0 THEN ISqrt((a * a) \div m)
    ELSE LET k == ISqrt((a * a) \div m)
         IN IF k * k * m = a * a THEN -k ELSE -(k + 1)

\* an array: the sequence s with its entries evaluated
Arr(s) == s \o <<>>

\* the sum of the first n entries of the sequence d
RECURSIVE SeqSum(_, _)
SeqSum(d, n) == IF n = 0 THEN 0 ELSE d[n] + SeqSum(d, n - 1)

----------------------------------------------------------------------------
\* _load_and_normalize (projection.py lines 8-26).  An image of shape (H, W)
\* is a sequence of H rows of W pixels of NChannels values; index i here is
\* index i - 1 of the array.

Shapes == (1..MaxSide) \X (1..MaxSide)

\* np.prod(output_shape)
NPixels(shape) == shape[1] * shape[2]

\* image[..., dim], flattened row by row
Channel(image, shape, dim) ==
    Arr([k \in 1..NPixels(shape) |->
        image[((k - 1) \div shape[2]) + 1][((k - 1) % shape[2]) + 1][dim]])

ChanSum(d) == SeqSum(d, Len(d))
ChanSumSq(d) == SeqSum([k \in 1..Len(d) |-> d[k] * d[k]], Len(d))

\* np.std(d) = sqrt(VarNum(d)) / n for the n pixels of the channel
VarNum(d) == Len(d) * ChanSumSq(d) - ChanSum(d) * ChanSum(d)

\* a_std(d) = max(std, 1/sqrt(n_pixels)) = sqrt(AStdNum) / n for a channel of
\* n pixels: std = sqrt(VarNum)/n and 1/sqrt(n_pixels) = sqrt(n*n/n_pixels)/n
AStdNum(d, n_pixels) == Max(VarNum(d), (Len(d) * Len(d)) \div n_pixels)

\* (x - mean) / a_std before the clip, in units of 1/Resolution, for a pixel
\* x of a channel of n pixels with sum s and a_std = sqrt(m)/n:
\* x - mean = (n*x - s)/n, so the quotient is (n*x - s)/sqrt(m)
Standardized(x, n, s, m) == FloorDivSqrt(Resolution * (n * x - s), m)

\* nrm(d) = np.clip((d - mean) / a_std, -4, 4) for a channel with sum s and
\* a_std = sqrt(m)/n
NrmUnclipped(d, s, m) ==
    [k \in 1..Len(d) |-> Standardized(d[k], Len(d), s, m)]
Nrm(d, s, m) ==
    Arr([k \in 1..Len(d) |->
        Clip(Standardized(d[k], Len(d), s, m), -4 * Resolution, 4 * Resolution)])

\* the normalized channel dim of the image (lines 21-22)
NormalizedChannel(raw, shape, dim) ==
    Nrm(Channel(raw, shape, dim),
        ChanSum(Channel(raw, shape, dim)),
        AStdNum(Channel(raw, shape, dim), NPixels(shape)))

\* np.clip(255. * ((image + 1.) / 5.), 0, 255)  (line 25)
Rescale(z) == Clip(FloorDiv(255 * (z + Resolution), 5), 0, 255 * Resolution)

\* the image built from its three normalized channels z1, z2, z3
Assemble(shape, z1, z2, z3) ==
    Arr([r \in 1..shape[1] |-> Arr([c \in 1..shape[2] |->
        <<Rescale(z1[(r - 1) * shape[2] + c]),
          Rescale(z2[(r - 1) * shape[2] + c]),
          Rescale(z3[(r - 1) * shape[2] + c])>>])])

\* _load_and_normalize on the resized image `raw`
LoadAndNormalize(raw, shape) ==
    Assemble(shape, NormalizedChannel(raw, shape, 1),
                    NormalizedChannel(raw, shape, 2),
                    NormalizedChannel(raw, shape, 3))

----------------------------------------------------------------------------
\* The image files on disk.  resize(imread(filename), output_shape) of file f
\* is a fixed array per file and shape; the files differ from each other.

Files == 1..NumFiles

Resized(f, shape) ==
    Arr([r \in 1..shape[1] |-> Arr([c \in 1..shape[2] |-> Arr([ch \in 1..NChannels |->
        (f * r + c * (c + f) + ch) % (MaxRaw + 1)])])])

\* ManifoldProjection2D._get_image (projection.py lines 55-57)
GetImage(f, shape) == LoadAndNormalize(Resized(f, shape), shape)

----------------------------------------------------------------------------
\* scipy.stats.binned_statistic_2d as called on lines 69-71: bins + 1 evenly
\* spaced edges per axis from the smallest to the largest value of the data,
\* the range widened by 0.5 on each side when the two are equal; a value is
\* binned by np.digitize, and a value on the last edge is moved into the last
\* bin.  Coordinates are integers.  Edges are in units of 1/(2*bins).

Column(manifold, k) == Arr([i \in 1..Len(manifold) |-> manifold[i][k]])

SeqMin(xs) == CHOOSE m \in {xs[i] : i \in 1..Len(xs)} : \A i \in 1..Len(xs) : m <= xs[i]
SeqMax(xs) == CHOOSE m \in {xs[i] : i \in 1..Len(xs)} : \A i \in 1..Len(xs) : m >= xs[i]

\* the range of the data, in half units
RangeLo(lo, hi) == IF lo = hi THEN 2 * lo - 1 ELSE 2 * lo
RangeHi(lo, hi) == IF lo = hi THEN 2 * hi + 1 ELSE 2 * hi

\* np.linspace(smin, smax, bins + 1)
Linspace(lo2, hi2, bins) == Arr([k \in 1..(bins + 1) |-> lo2 * bins + (k - 1) * (hi2 - lo2)])

\* xe, ye
Edges(xs, bins) ==
    Linspace(RangeLo(SeqMin(xs), SeqMax(xs)), RangeHi(SeqMin(xs), SeqMax(xs)), bins)

\* np.digitize(x, edges), less one for a value on the last edge
BinNumberOpenRight(x, edges, bins) ==
    Cardinality({k \in 1..Len(edges) : edges[k] <= 2 * bins * x})
BinNumber(x, edges, bins) ==
    LET n == Cardinality({k \in 1..Len(edges) : edges[k] <= 2 * bins * x})
    IN IF 2 * bins * x = edges[Len(edges)] THEN n - 1 ELSE n

\* bxy = zip(bn[0, :], bn[1, :])  (line 73)
ZipBins(manifold, bins, xe, ye) ==
    Arr([i \in 1..Len(manifold) |->
        <<BinNumber(manifold[i][1], xe, bins), BinNumber(manifold[i][2], ye, bins)>>])
BinKeys(manifold, bins) ==
    ZipBins(manifold, bins, Edges(Column(manifold, 1), bins), Edges(Column(manifold, 2), bins))

\* extent = [min(xe), max(xe), min(ye), max(ye)]  (line 110), in half units
ExtentOf(xe, ye, bins) ==
    <<SeqMin(xe) \div bins, SeqMax(xe) \div bins, SeqMin(ye) \div bins, SeqMax(ye) \div bins>>
ExtentSwapped(manifold, bins) ==
    ExtentOf(Edges(Column(manifold, 1), bins), Edges(Column(manifold, 1), bins), bins)
Extent(manifold, bins) ==
    ExtentOf(Edges(Column(manifold, 1), bins), Edges(Column(manifold, 2), bins), bins)

----------------------------------------------------------------------------
\* The lookup dictionary of lines 75-85.  A grid is a record: `keys` the bin
\* keys in insertion order, `bucket` the list of images of each key, `reads`
\* the files read while it was built.

EmptyGrid == [keys |-> <<>>, bucket |-> <<>>, reads |-> <<>>]

HasKey(grid, b) == \E k \in 1..Len(grid.keys) : grid.keys[k] = b
KeyIndex(grid, b) == CHOOSE k \in 1..Len(grid.keys) : grid.keys[k] = b

\* if b not in grid: grid[b] = []
WithKey(grid, b) ==
    IF HasKey(grid, b) THEN grid
    ELSE [grid EXCEPT !.keys = Append(@, b), !.bucket = Append(@, <<>>)]

\* the body of the loop for point idx (1-based here) with bin key b
AddPointAlwaysLoad(grid, idx, b, imgs, files, shape) ==
    LET g == WithKey(grid, b)
        k == KeyIndex(g, b)
    IN IF imgs # <<>>
       THEN [g EXCEPT !.bucket[k] = Append(@, imgs[idx])]
       ELSE [g EXCEPT !.bucket[k] = Append(@, GetImage(files[idx], shape)),
                      !.reads = Append(@, files[idx])]
AddPoint(grid, idx, b, imgs, files, shape) ==
    LET g == WithKey(grid, b)
        k == KeyIndex(g, b)
    IN IF imgs # <<>>
       THEN [g EXCEPT !.bucket[k] = Append(@, imgs[idx])]
       ELSE IF g.bucket[k] = <<>>
            THEN [g EXCEPT !.bucket[k] = Append(@, GetImage(files[idx], shape)),
                           !.reads = Append(@, files[idx])]
            ELSE g

\* the grid after the first n points
RECURSIVE BuildGrid(_, _, _, _, _)
BuildGrid(n, bxy, imgs, files, shape) ==
    IF n = 0 THEN EmptyGrid
    ELSE AddPoint(BuildGrid(n - 1, bxy, imgs, files, shape), n, bxy[n], imgs, files, shape)

----------------------------------------------------------------------------
\* The grid image of lines 87-106.  A canvas is a record: `shape` its
\* (rows, columns, channels), `px` its uint8 pixels, `raised` whether a tile
\* assignment failed to broadcast.

\* full_bins, half_bins (lines 88-89)
FullBins(shape) == shape
HalfBins(shape) == <<shape[1] \div 2, shape[2] \div 2>>

\* the shape of np.zeros(...) on lines 90-92
CanvasShape(shape, bins) ==
    <<(FullBins(shape)[1] + 1) * bins + HalfBins(shape)[1],
      (FullBins(shape)[2] + 1) * bins + HalfBins(shape)[2],
      NChannels>>

ZeroCanvas(cshape) ==
    [shape |-> cshape,
     px |-> Arr([i \in 1..cshape[1] |-> Arr([j \in 1..cshape[2] |-> Arr([ch \in 1..cshape[3] |-> 0])])]),
     raised |-> FALSE]

\* the indices a Python slice(start, stop, 1) selects on an axis of length n
SliceStart(start, n) == IF start < 0 THEN Max(start + n, 0) ELSE Min(start, n)
SliceIndices(start, stop, n) == SliceStart(start, n)..(SliceStart(stop, n) - 1)

\* blockx, blocky (lines 101-104) as <<start, stop>>, axis = 1 for x, 2 for y
BlockShifted(b, shape, axis) ==
    <<b * FullBins(shape)[axis], (b + 1) * FullBins(shape)[axis]>>
Block(b, shape, axis) ==
    <<b * FullBins(shape)[axis] - HalfBins(shape)[axis],
      (b + 1) * FullBins(shape)[axis] - HalfBins(shape)[axis]>>

BlockIndices(b, shape, cshape, axis) ==
    SliceIndices(Block(b, shape, axis)[1], Block(b, shape, axis)[2], cshape[axis])

\* im = np.mean(np.stack(images, axis=0), axis=0)  (lines 97-98)
MeanImage(imgs, shape) ==
    Arr([r \in 1..shape[1] |-> Arr([c \in 1..shape[2] |-> Arr([ch \in 1..NChannels |->
        FloorDiv(SeqSum([i \in 1..Len(imgs) |-> imgs[i][r][c][ch]], Len(imgs)),
                 Len(imgs))])])])

\* the cast of a float in [0, 255] on assignment into the uint8 canvas
ToUInt8(v) == v \div Resolution

\* numpy broadcasting of an axis of length n into a region of length m
Broadcasts(n, m) == n = m \/ n = 1

\* imgrid[blockx, blocky, :] = im  (line 106); rows and cols are the array
\* indices the two slices select, r0 and c0 the first of them
PaintTile(canvas, xy, im, shape) ==
    LET rows == BlockIndices(xy[1], shape, canvas.shape, 1)
        cols == BlockIndices(xy[2], shape, canvas.shape, 2)
        r0 == SliceStart(Block(xy[1], shape, 1)[1], canvas.shape[1])
        c0 == SliceStart(Block(xy[2], shape, 2)[1], canvas.shape[2])
    IN IF ~(Broadcasts(shape[1], Cardinality(rows)) /\ Broadcasts(shape[2], Cardinality(cols)))
       THEN [canvas EXCEPT !.raised = TRUE]
       ELSE [canvas EXCEPT !.px =
                Arr([i \in 1..canvas.shape[1] |-> Arr([j \in 1..canvas.shape[2] |->
                    IF (i - 1) \in rows /\ (j - 1) \in cols
                    THEN Arr([ch \in 1..NChannels |->
                            ToUInt8(im[IF shape[1] = 1 THEN 1 ELSE i - r0]
                                      [IF shape[2] = 1 THEN 1 ELSE j - c0][ch])])
                    ELSE canvas.px[i][j]])])]

\* the canvas after the first k entries of grid.items()  (lines 95-106)
RECURSIVE Paint(_, _, _, _)
Paint(k, grid, shape, bins) ==
    IF k = 0 THEN ZeroCanvas(CanvasShape(shape, bins))
    ELSE LET c == Paint(k - 1, grid, shape, bins)
         IN IF c.raised THEN c
            ELSE PaintTile(c, grid.keys[k], MeanImage(grid.bucket[k], shape), shape)

NoCanvas == [shape |-> <<0, 0, 0>>, px |-> <<>>, raised |-> FALSE]

\* ManifoldProjection2D.__call__ (lines 59-112): what it raises, the files it
\* reads, the grid it builds and what it returns
CallOutcomeLateAssert(manifold, bins, imgs, files, shape) ==
    LET early == Len(manifold) >= 1 /\ Len(manifold) < Len(files)
        grid == IF Len(manifold) = Len(files) \/ early
                THEN BuildGrid(Len(manifold), BinKeys(manifold, bins), imgs, files, shape)
                ELSE EmptyGrid
        canvas == Paint(Len(grid.keys), grid, shape, bins)
    IN IF Len(manifold) # Len(files)
       THEN [raised |-> "AssertionError", reads |-> grid.reads, grid |-> EmptyGrid,
             imgrid |-> NoCanvas, extent |-> <<>>]
       ELSE IF canvas.raised
       THEN [raised |-> "ValueError", reads |-> grid.reads, grid |-> grid,
             imgrid |-> NoCanvas, extent |-> <<>>]
       ELSE [raised |-> "none", reads |-> grid.reads, grid |-> grid,
             imgrid |-> canvas, extent |-> Extent(manifold, bins)]
CallOutcome(manifold, bins, imgs, files, shape) ==
    IF Len(manifold) # Len(files)
    THEN [raised |-> "AssertionError", reads |-> <<>>, grid |-> EmptyGrid,
          imgrid |-> NoCanvas, extent |-> <<>>]
    ELSE LET grid == BuildGrid(Len(manifold), BinKeys(manifold, bins), imgs, files, shape)
             canvas == Paint(Len(grid.keys), grid, shape, bins)
         IN IF canvas.raised
            THEN [raised |-> "ValueError", reads |-> grid.reads, grid |-> grid,
                  imgrid |-> NoCanvas, extent |-> <<>>]
            ELSE [raised |-> "none", reads |-> grid.reads, grid |-> grid,
                  imgrid |-> canvas, extent |-> Extent(manifold, bins)]

----------------------------------------------------------------------------
\* The ManifoldProjection2D object.

Points == (0..MaxCoord) \X (0..MaxCoord)
Manifolds == UNION {[1..n -> Points] : n \in 0..MaxFiles}
FileLists == UNION {[1..n -> Files] : n \in 1..MaxFiles}

RepeatPoints == (0..RepeatCoord) \X (0..RepeatCoord)
RepeatManifolds == UNION {[1..n -> RepeatPoints] : n \in 0..MaxFiles}

IdleProj ==
    /\ phase = "new"
    /\ output_shape = <<0, 0>>
    /\ image_files = <<>>
    /\ images = <<>>
    /\ preload = FALSE
    /\ reads = <<>>
    /\ ncalls = 0
    /\ call_manifold = <<>>
    /\ call_bins = 0
    /\ call_reads = <<>>
    /\ call_grid = EmptyGrid
    /\ raised = "none"
    /\ imgrid = NoCanvas
    /\ extent = <<>>

\* __init__ (lines 41-53)
Construct(files, shape, pre) ==
    /\ phase = "new"
    /\ phase' = "ready"
    /\ output_shape' = shape
    /\ image_files' = files
    /\ preload' = pre
    /\ images' = IF pre THEN [i \in 1..Len(files) |-> GetImage(files[i], shape)] ELSE <<>>
    /\ reads' = IF pre THEN files ELSE <<>>
    /\ UNCHANGED <<ncalls, call_manifold, call_bins, call_reads, call_grid,
                   raised, imgrid, extent>>
    /\ UNCHANGED notProj

\* __call__ with the object's image list left as `imgs`
CallEffect(manifold, bins, imgs) ==
    LET out == CallOutcome(manifold, bins, images, image_files, output_shape)
    IN /\ phase = "ready"
       /\ ncalls' = ncalls + 1
       /\ call_manifold' = manifold
       /\ call_bins' = bins
       /\ call_reads' = out.reads
       /\ call_grid' = out.grid
       /\ reads' = reads \o out.reads
       /\ raised' = out.raised
       /\ imgrid' = out.imgrid
       /\ extent' = out.extent
       /\ images' = imgs
       /\ UNCHANGED <<phase, output_shape, image_files, preload>>
       /\ UNCHANGED notProj

\* a __call__ that kept the images it loaded lazily in self._images
CallCaching(manifold, bins) ==
    CallEffect(manifold, bins,
        images \o [k \in 1..Len(call_grid'.keys) |-> call_grid'.bucket[k][1]])
\* __call__ (lines 59-112): self._images is not assigned
Call(manifold, bins) ==
    CallEffect(manifold, bins, images)

\* the only __call__ on the object
FirstCall(manifold, bins) == ncalls = 0 /\ Call(manifold, bins)
\* one of up to MaxCalls __call__s on the object
RepeatCall(manifold, bins) == ncalls < MaxCalls /\ Call(manifold, bins)

----------------------------------------------------------------------------
\* Properties of ManifoldProjection2D.

\* the sum of f[x] over the x of the finite set S
RECURSIVE SumOver(_, _)
SumOver(S, f) ==
    IF S = {} THEN 0
    ELSE LET x == CHOOSE y \in S : TRUE IN f[x] + SumOver(S \ {x}, f)

\* a __call__ has returned a canvas
Returned == ncalls >= 1 /\ raised = "none"

\* the image of every point of the latest call, read from its file
PointImages ==
    Arr([i \in 1..Len(call_manifold) |-> GetImage(image_files[i], output_shape)])

\* the canvas pixel at row r, column c (from 1) of the tile of bin key
TilePixel(key, r, c) ==
    imgrid.px[key[1] * output_shape[1] - output_shape[1] \div 2 + r]
             [key[2] * output_shape[2] - output_shape[2] \div 2 + c]

\* C1 as stated: a call whose manifold has a row count other than
\* len(image_files) raises AssertionError and no image file has been read
\* since the object's construction began, with or without preloading.
C1_NoReadSinceConstruction ==
    (ncalls >= 1 /\ Len(call_manifold) # Len(image_files)) =>
        (raised = "AssertionError" /\ reads = <<>>)

\* C1 amended: such a call raises AssertionError and the call itself reads no
\* image file; the only reads since construction are the constructor's own,
\* every file once when preloading and none otherwise.
C1_AssertBeforeCallReads ==
    (ncalls >= 1 /\ Len(call_manifold) # Len(image_files)) =>
        /\ raised = "AssertionError"
        /\ call_reads = <<>>
        /\ reads = IF preload THEN image_files ELSE <<>>

C1_Witness ==
    /\ ncalls >= 1
    /\ raised = "AssertionError"
    /\ preload
    /\ Len(call_manifold) >= 1
    /\ Len(call_manifold) < Len(image_files)
    /\ reads = image_files

\* C2 as stated: the returned canvas has shape
\* ((bins+1)*H + H//2, (bins+1)*W + W//2, 3).
C2_CanvasShapeAsStated ==
    Returned =>
        imgrid.shape = <<(call_bins + 1) * output_shape[1] + output_shape[1] \div 2,
                         (call_bins + 1) * output_shape[2] + output_shape[2] \div 2,
                         3>>

\* C3: with preloaded images the tile of each bin key is the element-wise mean
\* of the images of all the points in that bin; without preloading the bucket
\* of each bin holds one image, that of the lowest-index point in the bin, and
\* the tile is that image; the two modes give the same canvas when no bin
\* holds more than one point.  (A tile is stored as uint8.)
C3_TilePerBin ==
    Returned =>
        LET imgs == PointImages
            bxy == BinKeys(call_manifold, call_bins)
            pts(key) == {i \in 1..Len(bxy) : bxy[i] = key}
        IN /\ {call_grid.keys[k] : k \in 1..Len(call_grid.keys)}
                = {bxy[i] : i \in 1..Len(bxy)}
           /\ \A k \in 1..Len(call_grid.keys) :
                LET key == call_grid.keys[k]
                    in_bin == pts(key)
                    lowest == CHOOSE i \in in_bin : \A j \in in_bin : i <= j
                IN /\ \A j \in 1..Len(call_grid.keys) : call_grid.keys[j] = key => j = k
                   /\ preload =>
                        /\ Len(call_grid.bucket[k]) = Cardinality(in_bin)
                        /\ \A r \in 1..output_shape[1], c \in 1..output_shape[2], ch \in 1..NChannels :
                             TilePixel(key, r, c)[ch] =
                                ToUInt8(FloorDiv(
                                    SumOver(in_bin, [i \in 1..Len(bxy) |-> imgs[i][r][c][ch]]),
                                    Cardinality(in_bin)))
                   /\ ~preload =>
                        /\ call_grid.bucket[k] = <<imgs[lowest]>>
                        /\ \A r \in 1..output_shape[1], c \in 1..output_shape[2], ch \in 1..NChannels :
                             TilePixel(key, r, c)[ch] = ToUInt8(imgs[lowest][r][c][ch])
           /\ (\A i, j \in 1..Len(bxy) : bxy[i] = bxy[j] => i = j) =>
                imgrid = CallOutcome(call_manifold, call_bins,
                                     IF preload THEN <<>> ELSE imgs,
                                     image_files, output_shape).imgrid

C3_Witness ==
    /\ Returned
    /\ ~preload
    /\ \E k \in 1..Len(call_grid.keys) :
         /\ Len(call_grid.bucket[k]) = 1
         /\ \E i, j \in 1..Len(call_manifold) :
              /\ i < j
              /\ BinKeys(call_manifold, call_bins)[i] = call_grid.keys[k]
              /\ BinKeys(call_manifold, call_bins)[j] = call_grid.keys[k]
              /\ PointImages[i] # PointImages[j]
              /\ call_grid.bucket[k][1] = PointImages[i]

\* C4: the returned extent [e0, e1, e2, e3] is the least and greatest x bin
\* edge and the least and greatest y bin edge, e0 <= e1 and e2 <= e3, and
\* every point (x, y) of the manifold has e0 <= x <= e1 and e2 <= y <= e3.
\* (The extent is in half units.)
C4_ExtentContainsPoints ==
    Returned =>
        LET xe == Edges(Column(call_manifold, 1), call_bins)
            ye == Edges(Column(call_manifold, 2), call_bins)
        IN /\ Len(extent) = 4
           /\ \A k \in 1..Len(xe) : extent[1] * call_bins <= xe[k] /\ xe[k] <= extent[2] * call_bins
           /\ \A k \in 1..Len(ye) : extent[3] * call_bins <= ye[k] /\ ye[k] <= extent[4] * call_bins
           /\ \E k \in 1..Len(xe) : xe[k] = extent[1] * call_bins
           /\ \E k \in 1..Len(xe) : xe[k] = extent[2] * call_bins
           /\ \E k \in 1..Len(ye) : ye[k] = extent[3] * call_bins
           /\ \E k \in 1..Len(ye) : ye[k] = extent[4] * call_bins
           /\ extent[1] <= extent[2]
           /\ extent[3] <= extent[4]
           /\ \A i \in 1..Len(call_manifold) :
                /\ extent[1] <= 2 * call_manifold[i][1]
                /\ 2 * call_manifold[i][1] <= extent[2]
                /\ extent[3] <= 2 * call_manifold[i][2]
                /\ 2 * call_manifold[i][2] <= extent[4]

C4_Witness ==
    /\ Returned
    /\ Len(call_manifold) = 2
    /\ call_manifold[1][1] = call_manifold[2][1]
    /\ call_manifold[1][2] > call_manifold[2][2] + 1
    /\ extent[2] = extent[1] + 2
    /\ extent[4] > extent[3] + 2

\* C5: a call with a manifold of one row and one image file produces one bin
\* key, writes that file's image into one H x W region of the canvas, and
\* leaves every canvas pixel outside that region 0.
C5_SinglePointSingleTile ==
    (ncalls >= 1 /\ Len(call_manifold) = 1 /\ Len(image_files) = 1) =>
        /\ raised = "none"
        /\ Len(call_grid.keys) = 1
        /\ LET H == output_shape[1]
               W == output_shape[2]
               r0 == call_grid.keys[1][1] * H - H \div 2
               c0 == call_grid.keys[1][2] * W - W \div 2
               im == GetImage(image_files[1], output_shape)
           IN /\ r0 >= 0 /\ r0 + H <= imgrid.shape[1]
              /\ c0 >= 0 /\ c0 + W <= imgrid.shape[2]
              /\ \A i \in 1..imgrid.shape[1], j \in 1..imgrid.shape[2], ch \in 1..NChannels :
                   imgrid.px[i][j][ch] =
                      IF i - r0 \in 1..H /\ j - c0 \in 1..W
                      THEN ToUInt8(im[i - r0][j - c0][ch])
                      ELSE 0

C5_Witness ==
    /\ Returned
    /\ Len(call_manifold) = 1
    /\ Len(image_files) = 1
    /\ output_shape = <<2, 2>>
    /\ call_grid.keys = <<<<2, 2>>>>
    /\ \E r \in 1..2, c \in 1..2, ch \in 1..NChannels : TilePixel(<<2, 2>>, r, c)[ch] > 0
    /\ imgrid.px[1][1] = <<0, 0, 0>>

\* C7: a __call__ leaves _images, _image_files and _output_shape as they
\* were: preloaded images stay as loaded at construction; without preloading
\* _images stays empty and the call reads the files it needs again; and a
\* call with the manifold and bins of the call before it gives the same
\* canvas and extent.
C7_CallLeavesObjectUnchanged ==
    [][ncalls' = ncalls + 1 =>
         /\ images' = images
         /\ image_files' = image_files
         /\ output_shape' = output_shape
         /\ preload =>
              /\ images' = [i \in 1..Len(image_files) |-> GetImage(image_files[i], output_shape)]
              /\ call_reads' = <<>>
              /\ reads' = reads
         /\ ~preload =>
              /\ images' = <<>>
              /\ reads' = reads \o call_reads'
              /\ raised' = "none" => call_reads' # <<>>
         /\ (ncalls >= 1 /\ call_manifold' = call_manifold /\ call_bins' = call_bins) =>
              /\ raised' = raised
              /\ imgrid' = imgrid
              /\ extent' = extent
              /\ call_reads' = call_reads
      ]_vars

C7_Witness ==
    /\ ncalls = 2
    /\ ~preload
    /\ raised = "none"
    /\ images = <<>>
    /\ Len(image_files) = 1
    /\ call_reads = <<image_files[1]>>
    /\ reads = <<image_files[1], image_files[1]>>

\* C12: for every bin key (bx, by) of a call, 1 <= bx, by <= bins; the
\* destination slice, rows [bx*H - H//2, (bx+1)*H - H//2) and columns
\* [by*W - W//2, (by+1)*W - W//2), starts at or after 0, ends inside the
\* canvas and selects exactly H x W pixels, so the assignment does not wrap,
\* truncate or fail; and the slices of two distinct keys do not overlap.
C12_SlicesInsideAndDisjoint ==
    (ncalls >= 1 /\ Len(call_manifold) = Len(image_files)) =>
        LET H == output_shape[1]
            W == output_shape[2]
            r0(key) == key[1] * H - H \div 2
            c0(key) == key[2] * W - W \div 2
            rows(key) == r0(key)..(r0(key) + H - 1)
            cols(key) == c0(key)..(c0(key) + W - 1)
            keys == {call_grid.keys[k] : k \in 1..Len(call_grid.keys)}
        IN /\ raised = "none"
           /\ keys = {BinKeys(call_manifold, call_bins)[i] : i \in 1..Len(call_manifold)}
           /\ \A key \in keys :
                /\ key[1] \in 1..call_bins
                /\ key[2] \in 1..call_bins
                /\ r0(key) >= 0
                /\ c0(key) >= 0
                /\ r0(key) + H <= imgrid.shape[1]
                /\ c0(key) + W <= imgrid.shape[2]
                /\ BlockIndices(key[1], output_shape, imgrid.shape, 1) = rows(key)
                /\ BlockIndices(key[2], output_shape, imgrid.shape, 2) = cols(key)
                /\ Cardinality(rows(key)) = H
                /\ Cardinality(cols(key)) = W
           /\ \A key1, key2 \in keys :
                key1 # key2 =>
                    \/ rows(key1) \cap rows(key2) = {}
                    \/ cols(key1) \cap cols(key2) = {}
           /\ \A i \in 1..imgrid.shape[1], j \in 1..imgrid.shape[2] :
                (\A key \in keys : ~((i - 1) \in rows(key) /\ (j - 1) \in cols(key))) =>
                    imgrid.px[i][j] = <<0, 0, 0>>

C12_Witness ==
    /\ Returned
    /\ output_shape = <<2, 1>>
    /\ call_bins = 2
    /\ Len(call_grid.keys) = 2
    /\ call_grid.keys[1][1] = 1
    /\ call_grid.keys[2][1] = 2
    /\ call_grid.keys[1][2] = call_grid.keys[2][2]
    /\ imgrid.shape[1] = 7

----------------------------------------------------------------------------
\* _load_and_normalize on its own, on images of two intensities a and b: in
\* channel 1 the first k pixels are a and the rest b, in channel 2 the other
\* way round, and channel 3 is a ramp.

NormShapes == (1..MaxNormSide) \X (1..MaxNormSide)

NormImage(shape, k, a, b) ==
    Arr([r \in 1..shape[1] |-> Arr([c \in 1..shape[2] |->
        <<IF (r - 1) * shape[2] + c <= k THEN a ELSE b,
          IF (r - 1) * shape[2] + c <= k THEN b ELSE a,
          (a + ((r - 1) * shape[2] + c) * b) % (MaxRaw + 1)>>])])

IdleNorm ==
    /\ norm_in = <<>>
    /\ norm_shape = <<0, 0>>
    /\ norm_div = <<>>
    /\ norm_z = <<>>
    /\ norm_out = <<>>

\* one invocation of _load_and_normalize (lines 8-26)
Normalize(raw, shape) ==
    /\ norm_shape = <<0, 0>>
    /\ norm_in' = raw
    /\ norm_shape' = shape
    /\ norm_div' = [dim \in 1..NChannels |-> AStdNum(Channel(raw, shape, dim), NPixels(shape))]
    /\ norm_z' = [dim \in 1..NChannels |-> NormalizedChannel(raw, shape, dim)]
    /\ norm_out' = LoadAndNormalize(raw, shape)
    /\ UNCHANGED notNorm

\* C6: each channel is divided by max(std, 1/sqrt(n_pixels)), which is greater
\* than 0; every normalized value is in [-4, 4] before the rescale; every
\* value of the returned image is in [0, 255].  (norm_div holds the square of
\* the divisor times the square of the channel's pixel count.)
C6_NormalizedRanges ==
    norm_shape # <<0, 0>> =>
        /\ \A dim \in 1..NChannels :
             /\ norm_div[dim] > 0
             /\ norm_div[dim] >= VarNum(Channel(norm_in, norm_shape, dim))
             /\ norm_div[dim] >= NPixels(norm_shape)
             /\ \/ norm_div[dim] = VarNum(Channel(norm_in, norm_shape, dim))
                \/ norm_div[dim] = NPixels(norm_shape)
        /\ \A dim \in 1..NChannels, k \in 1..NPixels(norm_shape) :
             /\ -4 * Resolution <= norm_z[dim][k]
             /\ norm_z[dim][k] <= 4 * Resolution
        /\ \A r \in 1..norm_shape[1], c \in 1..norm_shape[2], ch \in 1..NChannels :
             /\ 0 <= norm_out[r][c][ch]
             /\ norm_out[r][c][ch] <= 255 * Resolution

C6_Witness ==
    /\ norm_shape # <<0, 0>>
    /\ \E dim \in 1..NChannels :
         /\ VarNum(Channel(norm_in, norm_shape, dim)) = 0
         /\ norm_div[dim] = NPixels(norm_shape)
    /\ \E dim \in 1..NChannels, k \in 1..NPixels(norm_shape) :
         /\ Standardized(Channel(norm_in, norm_shape, dim)[k], NPixels(norm_shape),
                         ChanSum(Channel(norm_in, norm_shape, dim)), norm_div[dim])
              > 4 * Resolution
         /\ norm_z[dim][k] = 4 * Resolution
         /\ norm_out[((k - 1) \div norm_shape[2]) + 1][((k - 1) % norm_shape[2]) + 1][dim]
              = 255 * Resolution

----------------------------------------------------------------------------
\* EncodingWriter and EncodingReader (io.py lines 13-156).
\*
\* A JSON value is a pair <<kind, content>>: an int, a string, or the hex
\* digest of an array.  A dict with string keys and such values is a function
\* from its keys.  An ordered dict of entries is a record: `keys` in insertion
\* order and `vals` the entry of each key.

IntVal(n) == <<"int", n>>
StrVal(str) == <<"str", str>>

\* _hash_encoding (lines 13-18): the sha256 digest of the array's bytes;
\* arrays of different bytes have different digests
HashEncoding(x) == <<"sha256", x>>

Encodings == 1..NumEncodings
ClassLabels == 0..MaxLabel
SrcFiles == {"data.tif"}
NpzNames == {"a.npz", "b.npz"}
DstFiles == NpzNames \cup {"c.txt"}

\* dst_file.endswith(".npz")
EndsWithNpz(name) == name \in NpzNames

\* the metadata dicts a caller passes to write()
NoMetadata == <<>>
Metadatas ==
    { NoMetadata,
      [model |-> StrVal("my_cool_model.h5")],
      [hash |-> StrVal("0027")],
      [class_label |-> IntVal(MaxLabel)],
      [dst_file |-> StrVal("b.npz")] }

\* {**data, **metadata}  (line 98): the keys of metadata win
Merge(data, metadata) ==
    [k \in DOMAIN data \cup DOMAIN metadata |->
        IF k \in DOMAIN metadata THEN metadata[k] ELSE data[k]]

EmptyDict == [keys |-> <<>>, vals |-> <<>>]
DictHas(d, key) == \E i \in 1..Len(d.keys) : d.keys[i] = key
DictIndex(d, key) == CHOOSE i \in 1..Len(d.keys) : d.keys[i] = key

\* d[key] = val: a key already present keeps its position
DictSet(d, key, val) ==
    IF DictHas(d, key)
    THEN [d EXCEPT !.vals[DictIndex(d, key)] = val]
    ELSE [keys |-> Append(d.keys, key), vals |-> Append(d.vals, val)]

\* json.dump of an ordered dict: its "key": value members in order
JsonDump(d) == [i \in 1..Len(d.keys) |-> <<d.keys[i], d.vals[i]>>]
\* json.load: the dict of the members, a repeated key keeping its last value
RECURSIVE JsonLoadFirst(_, _)
JsonLoadFirst(text, n) ==
    IF n = 0 THEN EmptyDict
    ELSE DictSet(JsonLoadFirst(text, n - 1), text[n][1], text[n][2])
JsonLoad(text) == JsonLoadFirst(text, Len(text))

\* list(data.values())  (line 127)
DictValues(d) == d.vals

\* the files on disk: no .npz file, no JSON file
NoNpz == [name \in NpzNames |-> [exists |-> FALSE, encoding |-> 0, class_label |-> 0]]
NotRead == [idx |-> -1, raised |-> "none", encoding |-> 0, metadata |-> <<>>]

IdleEnc ==
    /\ enc_phase = "closed"
    /\ json_data = EmptyDict
    /\ npz_files = NoNpz
    /\ json_file = <<>>
    /\ json_writes = 0
    /\ block_raised = FALSE
    /\ enc_log = <<>>
    /\ reader_metadata = <<>>
    /\ reader_got = NotRead

\* EncodingWriter.__init__ and __enter__ (lines 55-70)
Enter ==
    /\ enc_phase = "closed"
    /\ enc_phase' = "open"
    /\ json_data' = EmptyDict
    /\ UNCHANGED <<npz_files, json_file, json_writes, block_raised, enc_log,
                   reader_metadata, reader_got>>
    /\ UNCHANGED notEnc

\* EncodingWriter.__exit__ (lines 72-74); it returns None, so an exception
\* raised in the block propagates after the file is written
ExitEffect(raising) ==
    /\ enc_phase' = "exited"
    /\ json_file' = JsonDump(json_data)
    /\ json_writes' = json_writes + 1
    /\ block_raised' = raising

\* the end of the `with` block, normally or by an exception of the block's own
Exit(raising) ==
    /\ enc_phase = "open"
    /\ ExitEffect(raising)
    /\ UNCHANGED <<json_data, npz_files, enc_log, reader_metadata, reader_got>>
    /\ UNCHANGED notEnc

\* EncodingWriter.write (lines 76-98) inside the block; the AssertionError of
\* line 86 leaves the block, which runs __exit__
Write(encoding, src_file, dst_file, class_label, metadata) ==
    /\ enc_phase = "open"
    /\ Len(enc_log) < MaxWrites
    /\ IF ~EndsWithNpz(dst_file)
       THEN /\ ExitEffect(TRUE)
            /\ UNCHANGED <<json_data, npz_files, enc_log>>
       ELSE /\ npz_files' = [npz_files EXCEPT ![dst_file] =
                                [exists |-> TRUE, encoding |-> encoding,
                                 class_label |-> class_label]]
            /\ json_data' = DictSet(json_data, dst_file,
                                Merge([dst_file |-> StrVal(dst_file),
                                       src_file |-> StrVal(src_file),
                                       class_label |-> IntVal(class_label),
                                       hash |-> HashEncoding(encoding)],
                                      metadata))
            /\ enc_log' = Append(enc_log, [encoding |-> encoding, src_file |-> src_file,
                                           dst_file |-> dst_file, class_label |-> class_label,
                                           metadata |-> metadata])
            /\ UNCHANGED <<enc_phase, json_file, json_writes, block_raised>>
    /\ UNCHANGED <<reader_metadata, reader_got>>
    /\ UNCHANGED notEnc

\* EncodingReader.__init__ (lines 121-130) on the file the writer wrote
ReaderOpen ==
    /\ enc_phase = "exited"
    /\ enc_phase' = "reading"
    /\ reader_metadata' = DictValues(JsonLoad(json_file))
    /\ UNCHANGED <<json_data, npz_files, json_file, json_writes, block_raised,
                   enc_log, reader_got>>
    /\ UNCHANGED notEnc

\* EncodingReader.__getitem__ (lines 145-156): what it raises or returns
GetItemOutcome(idx, metadatas, files) ==
    LET metadata == metadatas[idx + 1]
        name == metadata.dst_file[2]
    IN IF ~(name \in NpzNames /\ files[name].exists)
       THEN [idx |-> idx, raised |-> "FileNotFoundError", encoding |-> 0, metadata |-> <<>>]
       ELSE IF IntVal(files[name].class_label) # metadata.class_label
                \/ HashEncoding(files[name].encoding) # metadata.hash
       THEN [idx |-> idx, raised |-> "AssertionError", encoding |-> 0, metadata |-> <<>>]
       ELSE [idx |-> idx, raised |-> "none", encoding |-> files[name].encoding,
             metadata |-> metadata]

GetItem(idx) ==
    /\ enc_phase = "reading"
    /\ idx \in 0..(Len(reader_metadata) - 1)
    /\ reader_got' = GetItemOutcome(idx, reader_metadata, npz_files)
    /\ UNCHANGED <<enc_phase, json_data, npz_files, json_file, json_writes,
                   block_raised, enc_log, reader_metadata>>
    /\ UNCHANGED notEnc

\* C8 as stated: the JSON file is written once, at the end of the block, with
\* one entry per distinct dst_file in first-write order; the reader returns
\* for every index the encoding last written to that entry's dst_file with
\* its metadata, and its class_label and hash assertions pass, whatever
\* metadata dict was passed to write().
C8_RoundTripAsStated ==
    LET first(i) == \A j \in 1..(i - 1) : enc_log[j].dst_file # enc_log[i].dst_file
        last(i) == \A j \in (i + 1)..Len(enc_log) : enc_log[j].dst_file # enc_log[i].dst_file
        rank(i) == Cardinality({j \in 1..i : first(j)})
    IN /\ enc_phase \in {"exited", "reading"} =>
            /\ json_writes = 1
            /\ Len(json_file) = Cardinality({i \in 1..Len(enc_log) : first(i)})
            /\ \A i \in 1..Len(enc_log) :
                 first(i) => json_file[rank(i)][1] = enc_log[i].dst_file
       /\ reader_got.idx >= 0 =>
            /\ reader_got.raised = "none"
            /\ \A i \in 1..Len(enc_log) :
                 (last(i) /\ \E f \in 1..i :
                     /\ first(f)
                     /\ enc_log[f].dst_file = enc_log[i].dst_file
                     /\ rank(f) = reader_got.idx + 1) =>
                    /\ reader_got.encoding = enc_log[i].encoding
                    /\ \A k \in DOMAIN enc_log[i].metadata :
                         reader_got.metadata[k] = enc_log[i].metadata[k]

----------------------------------------------------------------------------
\* read_annotations (io.py lines 185-295), called with a list of paths.
\*
\* A zip file is a record: `exists` whether it is in its directory,
\* `annotation_prefix` whether its name starts with "annotation_",
\* `zip_suffix` whether its name ends with ".zip",
\* `states` the "states" dict of its JSON file, a function from state names
\* to numeric labels, and `tifs` its .tif members, each a record of the state
\* name it starts with and whether its name ends with "flagged".

StateNames == <<"interphase", "metaphase">>

StatesDicts ==
    { <<>>,
      [interphase |-> 0],
      [interphase |-> 0, metaphase |-> 1],
      [interphase |-> 1, metaphase |-> 0] }

Tif(label, flagged) == [label |-> label, flagged |-> flagged]

TifLists ==
    { <<>>,
      <<Tif("interphase", FALSE), Tif("metaphase", FALSE), Tif("interphase", TRUE)>> }

ZipFiles ==
    [exists : BOOLEAN, annotation_prefix : BOOLEAN, zip_suffix : BOOLEAN,
     states : StatesDicts, tifs : TifLists]

ZipLists == UNION {[1..n -> ZipFiles] : n \in 0..MaxZips}

\* lines 248 and 253: the file is passed over
Skipped(zip) == ~zip.exists \/ (~zip.annotation_prefix /\ zip.zip_suffix)

\* enum.Enum("States", states): the members <<name, value>> in order, a name
\* whose value an earlier member has being an alias and not a member
RECURSIVE EnumMembers(_, _)
EnumMembers(dict, n) ==
    IF n = 0 THEN <<>>
    ELSE LET before == EnumMembers(dict, n - 1)
             name == StateNames[n]
         IN IF name \notin DOMAIN dict
               \/ \E k \in 1..Len(before) : before[k][2] = dict[name]
            THEN before
            ELSE Append(before, <<name, dict[name]>>)
MakeEnum(dict) == EnumMembers(dict, Len(StateNames))

\* _test_flagged (lines 215-218)
TestFlagged(tif, use_flagged) == ~(~use_flagged /\ tif.flagged)

\* raw_images of lines 281-287 for the state named label: the members read,
\* each as <<position of the zip file, position of the member>>
RawImages(zip, at, label, use_flagged) ==
    SelectSeq([k \in 1..Len(zip.tifs) |-> <<at, k>>],
              LAMBDA im : zip.tifs[im[2]].label = label
                          /\ TestFlagged(zip.tifs[im[2]], use_flagged))

\* images and labels after the first n members of the enum (lines 277-290)
RECURSIVE Gather(_, _, _, _, _, _, _)
Gather(n, members, zip, at, use_flagged, imgs, lbls) ==
    IF n = 0 THEN [images |-> imgs, labels |-> lbls]
    ELSE LET g == Gather(n - 1, members, zip, at, use_flagged, imgs, lbls)
             raw == RawImages(zip, at, members[n][1], use_flagged)
         IN [images |-> g.images \o raw,
             labels |-> g.labels \o [k \in 1..Len(raw) |-> members[n][2]]]

IdleAnn ==
    /\ ann_phase = "idle"
    /\ ann_use_flagged = FALSE
    /\ zipfiles = <<>>
    /\ ann_pos = 0
    /\ states = <<>>
    /\ States = <<>>
    /\ ann_images = <<>>
    /\ ann_labels = <<>>
    /\ ann_raised = "none"

\* lines 220-241: the call, up to the loop
ReadAnnotations(path, use_flagged) ==
    /\ ann_phase = "idle"
    /\ zipfiles' = path
    /\ ann_use_flagged' = use_flagged
    /\ ann_pos' = 0
    /\ states' = <<>>
    /\ States' = <<>>
    /\ ann_images' = <<>>
    /\ ann_labels' = <<>>
    /\ IF path = <<>>
       THEN ann_phase' = "raised" /\ ann_raised' = "IOError"
       ELSE ann_phase' = "loop" /\ ann_raised' = "none"
    /\ UNCHANGED notAnn

\* one iteration of the loop over zipfiles (lines 244-290)
NextZipFile(zip_fn) ==
    /\ ann_phase = "loop"
    /\ ann_pos < Len(zipfiles)
    /\ ann_pos' = ann_pos + 1
    /\ UNCHANGED <<zipfiles, ann_use_flagged>>
    /\ UNCHANGED notAnn
    /\ IF Skipped(zip_fn)
       THEN UNCHANGED <<ann_phase, states, States, ann_images, ann_labels, ann_raised>>
       ELSE LET new_states == IF DOMAIN states = {} THEN zip_fn.states ELSE states
                new_enum == IF DOMAIN states = {} THEN MakeEnum(zip_fn.states) ELSE States
            IN IF new_states # zip_fn.states
               THEN /\ ann_phase' = "raised"
                    /\ ann_raised' = "Exception"
                    /\ states' = new_states
                    /\ States' = new_enum
                    /\ UNCHANGED <<ann_images, ann_labels>>
               ELSE LET g == Gather(Len(new_enum), new_enum, zip_fn, ann_pos + 1,
                                    ann_use_flagged, ann_images, ann_labels)
                    IN /\ states' = new_states
                       /\ States' = new_enum
                       /\ ann_images' = g.images
                       /\ ann_labels' = g.labels
                       /\ UNCHANGED <<ann_phase, ann_raised>>

\* the iteration for the next file of zipfiles
NextZip ==
    /\ ann_pos < Len(zipfiles)
    /\ NextZipFile(zipfiles[ann_pos + 1])

\* lines 292-295: the check after the loop, and the return
ReturnAnnotations ==
    /\ ann_phase = "loop"
    /\ ann_pos = Len(zipfiles)
    /\ IF Len(ann_images) = Len(ann_labels)
       THEN ann_phase' = "returned" /\ ann_raised' = "none"
       ELSE ann_phase' = "raised" /\ ann_raised' = "AssertionError"
    /\ UNCHANGED <<ann_use_flagged, zipfiles, ann_pos, states, States,
                   ann_images, ann_labels>>
    /\ UNCHANGED notAnn

\* C9 as stated: read_annotations returns only if every zip file it processed
\* declares the same states; if a processed file's states differ from those
\* of an earlier processed file it raises Exception; on return `states` is
\* the common mapping and there are as many images as labels.
C9_ReturnsOnlyIfStatesAgree ==
    LET processed == {k \in 1..Len(zipfiles) : ~Skipped(zipfiles[k])}
    IN /\ ann_phase = "returned" =>
            /\ \A i, j \in processed : zipfiles[i].states = zipfiles[j].states
            /\ \A i \in processed : states = zipfiles[i].states
            /\ Len(ann_images) = Len(ann_labels)
       /\ (ann_phase \in {"returned", "raised"} /\ zipfiles # <<>>
             /\ \E i, j \in processed : zipfiles[i].states # zipfiles[j].states) =>
            ann_raised = "Exception"

----------------------------------------------------------------------------
\* UNet (unet.py lines 9-135).  A tensor is its number of filters.

\* the members of SkipConnection (lines 12-15) in order.  NONE is assigned a
\* function, which an Enum class body takes as a method, not as a member.
MemberNames == <<"ELEMENTWISE_ADD", "ELEMENTWISE_MULTIPLY", "CONCATENATE">>

\* the layer each name of SkipConnection is bound to
MemberValue(name) ==
    CASE name = "ELEMENTWISE_ADD" -> "Add"
      [] name = "ELEMENTWISE_MULTIPLY" -> "Multiply"
      [] name = "CONCATENATE" -> "Concatenate"
      [] name = "NONE" -> "First"

\* the values of the `skip` argument considered, and skip.upper()
SkipArgs ==
    {"elementwise_add", "elementwise_multiply", "concatenate", "none",
     "Concatenate", "add"}
Upper(skip) ==
    CASE skip = "elementwise_add" -> "ELEMENTWISE_ADD"
      [] skip = "elementwise_multiply" -> "ELEMENTWISE_MULTIPLY"
      [] skip \in {"concatenate", "Concatenate"} -> "CONCATENATE"
      [] skip = "none" -> "NONE"
      [] skip = "add" -> "ADD"

Filters == {8, 16}
LayerLists == UNION {[1..n -> Filters] : n \in 0..MaxLayers}

\* what a merge layer returns for the inputs [x, skip]
Apply(op, x, skip) ==
    CASE op = "Concatenate" -> x + skip
      [] op \in {"Add", "Multiply"} -> x
      [] op = "First" -> x

IdleUNet ==
    /\ unet_phase = "new"
    /\ unet_skip = ""
    /\ unet_layers = <<>>
    /\ unet_skips = <<>>
    /\ unet_merges = <<>>
    /\ unet_out = 0
    /\ unet_raised = "none"

\* UNet.__init__ (lines 73-113)
UNetInit(layers, output_filters, skip) ==
    /\ unet_phase = "new"
    /\ unet_skip' = skip
    /\ unet_layers' = layers
    /\ unet_merges' = <<>>
    /\ unet_out' = 0
    /\ IF \A k \in 1..Len(MemberNames) : MemberNames[k] # Upper(skip)
       THEN /\ unet_phase' = "raised"
            /\ unet_raised' = "ValueError"
            /\ unet_skips' = <<>>
       ELSE IF Len(layers) # Len(SubSeq(layers, 1, Len(layers) - 1)) + 1
       THEN /\ unet_phase' = "raised"
            /\ unet_raised' = "AssertionError"
            /\ unet_skips' = <<>>
       ELSE /\ unet_phase' = "built"
            /\ unet_raised' = "none"
            /\ unet_skips' = [i \in 1..(Len(layers) - 1) |-> "Concatenate"]
    /\ UNCHANGED notUNet

\* the decoder arm from level n down (lines 126-130): the merges made, each
\* with its level (from 0), its layer and its inputs, and the tensor x
RECURSIVE Decode(_, _, _, _)
Decode(level, layers, skips, x) ==
    IF level = Len(layers) - 1 THEN [merges |-> <<>>, x |-> x]
    ELSE LET above == Decode(level + 1, layers, skips, x)
             merged == Apply(skips[level], above.x, layers[level])
         IN [merges |-> Append(above.merges,
                               [level |-> level - 1, layer |-> skips[level],
                                inputs |-> <<above.x, layers[level]>>,
                                output |-> merged]),
             x |-> layers[level]]

\* UNet.call (lines 115-135)
UNetCall(output_filters) ==
    /\ unet_phase = "built"
    /\ IF Len(unet_layers) = 1
       THEN /\ unet_phase' = "raised"
            /\ unet_raised' = "IndexError"
            /\ UNCHANGED <<unet_merges, unet_out>>
       ELSE /\ unet_phase' = "called"
            /\ unet_merges' = Decode(1, unet_layers, unet_skips,
                                     unet_layers[Len(unet_layers)]).merges
            /\ unet_out' = output_filters
            /\ UNCHANGED unet_raised
    /\ UNCHANGED <<unet_skip, unet_layers, unet_skips>>
    /\ UNCHANGED notUNet

----------------------------------------------------------------------------
\* write_dataset and parse_tfrecord (dataset.py lines 9-123).
\*
\* `images` is an array of dtype ds_dtype holding Len(ds_images) images of
\* shape ds_shape (images.shape[1:]), each image its elements in C order.
\* `labels` is a record: `given` whether labels is not None, `values` its
\* entries.

DIMENSIONS == <<"height", "width", "channels">>

DTypes == {"uint8", "uint16", "float32"}

\* images.shape[1:] for images.ndim from 2 to 6
DataShapes == UNION {[1..d -> 1..MaxDim] : d \in 1..5}

RECURSIVE SeqProd(_, _)
SeqProd(shape, n) == IF n = 0 THEN 1 ELSE shape[n] * SeqProd(shape, n - 1)

\* the number of elements of an array of this shape
Size(shape) == SeqProd(shape, Len(shape))

\* element values an array of the dtype may hold
Palette(dtype) ==
    IF dtype = "uint16" THEN <<0, 1, ByteBase - 1, ByteBase, ByteBase * ByteBase - 1>>
    ELSE <<0, 1, ByteBase - 1>>

\* the elements of image i (from 1) of the array chosen by seed
ImageElements(dtype, shape, seed, i) ==
    [k \in 1..Size(shape) |->
        Palette(dtype)[((seed + i + k) % Len(Palette(dtype))) + 1]]

ImageArray(dtype, shape, seed, n) ==
    [i \in 1..n |-> ImageElements(dtype, shape, seed, i)]

NoLabels == [given |-> FALSE, values |-> <<>>]
LabelArray(seed, n) ==
    [given |-> TRUE, values |-> [i \in 1..n |-> (seed + i) % (MaxLabel + 1)]]

\* the bytes of one element: 1 for uint8, 2 (low byte first) for uint16
ElementBytes(dtype, v) ==
    IF dtype = "uint16" THEN <<v % ByteBase, v \div ByteBase>> ELSE <<v>>

\* data.tostring() (line 55)
RECURSIVE TostringFirst(_, _, _)
TostringFirst(dtype, elements, n) ==
    IF n = 0 THEN <<>>
    ELSE TostringFirst(dtype, elements, n - 1) \o ElementBytes(dtype, elements[n])
Tostring(dtype, elements) == TostringFirst(dtype, elements, Len(elements))

\* the tf.train.Example of image idx (from 1) (lines 54-66)
Example(dtype, shape, elements, labels, idx) ==
    [image |-> Tostring(dtype, elements),
     width |-> shape[2],
     height |-> shape[1],
     channels |-> shape[Len(shape)],
     has_label |-> labels.given,
     label |-> IF labels.given THEN labels.values[idx] ELSE 0]

\* tf.io.decode_raw(bytes, tf.uint8) (line 111): one value per byte
DecodeRaw(bytes) == bytes

NotParsed(read_label) ==
    [raised |-> "InvalidArgumentError", read_label |-> read_label, dtype |-> "",
     shape |-> <<>>, values |-> <<>>, has_label |-> FALSE, label |-> 0]

\* parse_tfrecord with output_shape=None (lines 98-123): what it raises or
\* returns for one serialized example
ParseTFRecord(example, dtype, read_label) ==
    LET image_raw == DecodeRaw(example.image)
        out_shape == [d \in 1..Len(DIMENSIONS) |-> example[DIMENSIONS[d]]]
    IN IF read_label /\ ~example.has_label
       THEN NotParsed(read_label)
       ELSE IF Size(out_shape) # Len(image_raw)
       THEN NotParsed(read_label)
       ELSE [raised |-> "none", read_label |-> read_label, dtype |-> "float32",
             shape |-> out_shape, values |-> image_raw,
             has_label |-> read_label,
             label |-> IF read_label THEN example.label ELSE 0]

IdleDs ==
    /\ ds_phase = "idle"
    /\ ds_dtype = ""
    /\ ds_shape = <<>>
    /\ ds_images = <<>>
    /\ ds_labels = NoLabels
    /\ tfrecord = <<>>
    /\ ds_raised = "none"
    /\ parsed = <<>>

\* write_dataset (lines 24-69)
WriteDataset(dtype, shape, imgs, labels) ==
    /\ ds_phase = "idle"
    /\ ds_dtype' = dtype
    /\ ds_shape' = shape
    /\ ds_images' = imgs
    /\ ds_labels' = labels
    /\ parsed' = <<>>
    /\ IF \/ dtype \notin {"uint8", "uint16"}
          \/ ~(Len(shape) + 1 > 2 /\ Len(shape) + 1 < 6)
          \/ (labels.given /\ Len(imgs) # Len(labels.values))
       THEN /\ ds_phase' = "raised"
            /\ ds_raised' = "AssertionError"
            /\ tfrecord' = <<>>
       ELSE /\ ds_phase' = "written"
            /\ ds_raised' = "none"
            /\ tfrecord' = [idx \in 1..Len(imgs) |->
                               Example(dtype, shape, imgs[idx], labels, idx)]
    /\ UNCHANGED notDs

\* parse_tfrecord mapped over the next record of the file
ParseNext(read_label) ==
    /\ ds_phase = "written"
    /\ Len(parsed) < Len(tfrecord)
    /\ parsed' = Append(parsed,
                        ParseTFRecord(tfrecord[Len(parsed) + 1], ds_dtype, read_label))
    /\ UNCHANGED <<ds_phase, ds_dtype, ds_shape, ds_images, ds_labels, tfrecord,
                   ds_raised>>
    /\ UNCHANGED notDs

\* C11 as stated: for every array write_dataset accepts (uint8 or uint16,
\* 3 <= ndim <= 5, as many labels as images), parse_tfrecord with
\* output_shape=None, and read_label set when labels were written, gives for
\* the i-th record a float32 image with the shape and the element values of
\* images[i], and the label labels[i].
C11_RoundTripAsStated ==
    ds_phase = "written" =>
        \A i \in 1..Len(parsed) :
            parsed[i].read_label = ds_labels.given =>
                /\ parsed[i].raised = "none"
                /\ parsed[i].dtype = "float32"
                /\ parsed[i].shape = ds_shape
                /\ parsed[i].values = ds_images[i]
                /\ ds_labels.given =>
                     (parsed[i].has_label /\ parsed[i].label = ds_labels.values[i])

----------------------------------------------------------------------------
\* Specifications.

Init == IdleProj /\ IdleNorm /\ IdleEnc /\ IdleAnn /\ IdleUNet /\ IdleDs

\* one object, one __call__
Next ==
    \/ \E files \in FileLists, shape \in Shapes, pre \in BOOLEAN :
         Construct(files, shape, pre)
    \/ \E manifold \in Manifolds, bins \in 1..MaxBins :
         FirstCall(manifold, bins)

Spec == Init /\ [][Next]_vars

\* one object, called repeatedly
NextRepeat ==
    \/ \E files \in FileLists, shape \in Shapes, pre \in BOOLEAN :
         Construct(files, shape, pre)
    \/ \E manifold \in RepeatManifolds, bins \in 1..MaxBins :
         RepeatCall(manifold, bins)

SpecRepeat == Init /\ [][NextRepeat]_vars

\* _load_and_normalize on its own
NextNorm ==
    \E shape \in NormShapes, a \in 0..MaxRaw, b \in 0..MaxRaw :
       \E k \in 0..NPixels(shape) : Normalize(NormImage(shape, k, a, b), shape)

SpecNorm == Init /\ [][NextNorm]_vars

\* one `with EncodingWriter` block, then an EncodingReader on its file
NextEnc ==
    \/ Enter
    \/ \E encoding \in Encodings, src_file \in SrcFiles, dst_file \in DstFiles,
          class_label \in ClassLabels, metadata \in Metadatas :
         Write(encoding, src_file, dst_file, class_label, metadata)
    \/ \E raising \in BOOLEAN : Exit(raising)
    \/ ReaderOpen
    \/ \E idx \in 0..(MaxWrites - 1) : GetItem(idx)

SpecEnc == Init /\ [][NextEnc]_vars

\* one call of read_annotations
NextAnn ==
    \/ \E path \in ZipLists, use_flagged \in BOOLEAN : ReadAnnotations(path, use_flagged)
    \/ NextZip
    \/ ReturnAnnotations

SpecAnn == Init /\ [][NextAnn]_vars

\* one UNet object, called once
NextUNet ==
    \/ \E layers \in LayerLists, skip \in SkipArgs : UNetInit(layers, 1, skip)
    \/ UNetCall(1)

SpecUNet == Init /\ [][NextUNet]_vars

\* one write_dataset, then parse_tfrecord over the records in order
NextDs ==
    \/ \E dtype \in DTypes, shape \in DataShapes, seed \in 0..MaxSeed,
          n \in 0..MaxImages, labelled \in BOOLEAN, extra \in 0..1 :
         WriteDataset(dtype, shape, ImageArray(dtype, shape, seed, n),
                      IF labelled THEN LabelArray(seed, n + extra) ELSE NoLabels)
    \/ \E read_label \in BOOLEAN : ParseNext(read_label)

SpecDs == Init /\ [][NextDs]_vars

====
